---- MODULE Spec2Model ----
(***************************************************************************)
(* Reviewer-assignment service: the relational store (teams, users,        *)
(* pull_requests, pr_reviewers) and the service operations that read and   *)
(* write it (internal/service).  Spec runs every operation as one          *)
(* transaction at a time; SpecTeams is the team manager with wider member  *)
(* lists; SpecTx runs the transactions of two handlers statement by        *)
(* statement, with store errors injected before any statement.             *)
(***************************************************************************)
EXTENDS Integers, Sequences, FiniteSets, Bags, TLC

\* ---------------------------------------------------------------- bounds
\* timestamps are 1..MaxTime (the store's clock)
MaxTime == 2
\* longest member list of a CreateTeam request of SpecTeams
MaxDupMembers == 2

\* ------------------------------------------------------------- universes
TeamNames == {"t1", "t2"}
\* user ids in the order ORDER BY user_id gives them
UserOrder == <<"u1", "u2", "u3", "u4">>
UserIds == {UserOrder[i] : i \in 1..Len(UserOrder)}
Usernames == {"a", "b"}
\* the PR ids of Spec and SpecTx, and those of SpecPR
PRIds == {"pr1"}
LockPRIds == {"pr1", "pr2"}
PRNames == {"n1"}
Times == 1..MaxTime

\* ------------------------------------------------------- program constants
CodeTeamExists == "TEAM_EXISTS"
CodePRExists == "PR_EXISTS"
CodePRMerged == "PR_MERGED"
CodeNotAssigned == "NOT_ASSIGNED"
CodeNoCandidate == "NO_CANDIDATE"
CodeNotFound == "NOT_FOUND"
\* pickRandom(s.rnd, candidates, 2)
ReviewerLimit == 2
StatusOpen == "OPEN"
StatusMerged == "MERGED"
\* a nil error
OK == "OK"
\* an error that is no AppError (a store failure, a constraint violation)
Internal == "INTERNAL"

VARIABLES
  teams,         \* table teams: the set of team_name
  users,         \* table users: user_id -> [username, team_name, is_active]
  prs,           \* table pull_requests: pull_request_id -> row
  pr_reviewers,  \* table pr_reviewers: a bag of <<pull_request_id, user_id>>
  clock,         \* the store's clock, what now() reads
  last,          \* what the last call returned (Spec, SpecTeams)
  txs            \* the transaction each handler has open (SpecTx)

store == <<teams, users, prs, pr_reviewers>>
vars == <<teams, users, prs, pr_reviewers, clock, last, txs>>

\* sql.NullTime
NullTime == [Valid |-> FALSE, Time |-> 0]
ValidTime(t) == [Valid |-> TRUE, Time |-> t]

\* models.PullRequest as the calls return it; AssignedReviewers is a sequence
NoPR == [ID |-> "", Name |-> "", AuthorID |-> "", Status |-> "",
         AssignedReviewers |-> <<>>, MergedAt |-> NullTime]

\* service.Stats; Assignments is a sequence
NoStats == [TotalPRs |-> 0, OpenPRs |-> 0, MergedPRs |-> 0, Assignments |-> <<>>]

\* models.Team; Members is a sequence
NoTeam == [TeamName |-> "", Members |-> <<>>]

\* what a call returns: the error, and the values of the call that has them
\* (list: the []models.PullRequestShort of ListUserReviews)
Reply(op, err, pr, replacedBy) ==
  [op |-> op, err |-> err, pr |-> pr, replaced_by |-> replacedBy,
   list |-> {}, stats |-> NoStats, team |-> NoTeam]

NoReply == Reply("", OK, NoPR, "")

\* ------------------------------------------------------------- the tables
Pos(u) == CHOOSE i \in 1..Len(UserOrder) : UserOrder[i] = u

Range(s) == {s[i] : i \in 1..Len(s)}

RECURSIVE Repeat(_, _)
Repeat(x, n) == IF n <= 0 THEN <<>> ELSE <<x>> \o Repeat(x, n - 1)

\* rows of pr_reviewers of one PR
RowCount(rows, prID, u) == CopiesIn(<<prID, u>>, rows)

RECURSIVE loadFrom(_, _, _)
loadFrom(rows, prID, i) ==
  IF i > Len(UserOrder) THEN <<>>
  ELSE Repeat(UserOrder[i], RowCount(rows, prID, UserOrder[i]))
       \o loadFrom(rows, prID, i + 1)

\* SELECT user_id FROM pr_reviewers WHERE pull_request_id = $1 ORDER BY user_id
loadReviewers(rows, prID) == loadFrom(rows, prID, 1)

\* mutant: the query without "AND user_id <> $2"
activeTeamMembersAll(us, teamName, excludedID) ==
  {u \in DOMAIN us : us[u].team_name = teamName /\ us[u].is_active}

\* SELECT user_id FROM users WHERE team_name = $1 AND is_active = true
\*   AND user_id <> $2      (no ORDER BY: a set)
activeTeamMembers(us, teamName, excludedID) ==
  {u \in DOMAIN us : /\ us[u].team_name = teamName
                     /\ us[u].is_active
                     /\ u # excludedID}

\* mutant: the loop returns true on its first iteration
containsAny(list, target) == Len(list) > 0

contains(list, target) == \E i \in 1..Len(list) : list[i] = target

\* PRIMARY KEY (pull_request_id, user_id) of pr_reviewers
reviewerKeyFree(rows, prID, u) == RowCount(rows, prID, u) = 0

\* INSERT INTO pr_reviewers (pull_request_id, user_id) VALUES ($1, $2)
insertReviewer(rows, prID, u) == rows (+) SetToBag({<<prID, u>>})

\* DELETE FROM pr_reviewers WHERE pull_request_id = $1 AND user_id = $2
deleteReviewer(rows, prID, u) ==
  rows (-) [r \in {<<prID, u>>} |-> RowCount(rows, prID, u)]

\* ------------------------------------------------------------ CreateTeam
MemberRecs == [UserID : UserIds, Username : Usernames, IsActive : BOOLEAN]

\* the member lists Spec draws from: distinct ids in ascending order (the
\* upserts of distinct ids commute), every member named "a" and active
\* (SetUserActive clears the flag)
SortedRequests ==
  {m \in UNION {[1..n -> {r \in MemberRecs : r.Username = "a" /\ r.IsActive}] :
                  n \in 1..Len(UserOrder)} :
     \A i \in 1..(Len(m) - 1) : Pos(m[i].UserID) < Pos(m[i + 1].UserID)}

\* the member lists SpecTeams draws from: every short list over two user
\* ids, in any order, with any names and flags, the same id named twice
\* included
ShortUsers == {"u1", "u2"}
ShortRequests ==
  UNION {[1..n -> {r \in MemberRecs : r.UserID \in ShortUsers}] :
           n \in 1..MaxDupMembers}

\* mutant: the pre-check compares nothing
teamExistsNever(ts, teamName) == FALSE

\* SELECT team_name FROM teams WHERE team_name = $1 finds a row
teamExists(ts, teamName) == teamName \in ts

\* mutant: ON CONFLICT (user_id) DO NOTHING
upsertUserDoNothing(us, member, teamName) ==
  [u \in DOMAIN us \cup {member.UserID} |->
     IF u \in DOMAIN us THEN us[u]
     ELSE [username |-> member.Username, team_name |-> teamName,
           is_active |-> member.IsActive]]

\* INSERT INTO users ... ON CONFLICT (user_id) DO UPDATE SET username,
\* team_name, is_active
upsertUser(us, member, teamName) ==
  [u \in DOMAIN us \cup {member.UserID} |->
     IF u = member.UserID
       THEN [username |-> member.Username, team_name |-> teamName,
             is_active |-> member.IsActive]
       ELSE us[u]]

\* for _, member := range team.Members { upsert }
RECURSIVE upsertMembers(_, _, _)
upsertMembers(us, members, teamName) ==
  IF members = <<>> THEN us
  ELSE upsertMembers(upsertUser(us, Head(members), teamName),
                     Tail(members), teamName)

CreateTeam(teamName, members) ==
  /\ last = NoReply
  /\ IF teamExists(teams, teamName)
       THEN /\ last' = Reply("CreateTeam", CodeTeamExists, NoPR, "")
            /\ UNCHANGED <<teams, users>>
       ELSE /\ teams' = teams \cup {teamName}
            /\ users' = upsertMembers(users, members, teamName)
            /\ last' = Reply("CreateTeam", OK, NoPR, "")
  /\ UNCHANGED <<prs, pr_reviewers, clock, txs>>

\* --------------------------------------------------------------- GetTeam
\* SELECT user_id, username, is_active FROM users WHERE team_name = $1
\* ORDER BY user_id
RECURSIVE teamMembers(_, _, _)
teamMembers(us, teamName, i) ==
  IF i > Len(UserOrder) THEN <<>>
  ELSE LET u == UserOrder[i]
       IN (IF u \in DOMAIN us /\ us[u].team_name = teamName
             THEN <<[UserID |-> u, Username |-> us[u].username,
                     IsActive |-> us[u].is_active]>>
             ELSE <<>>)
          \o teamMembers(us, teamName, i + 1)

GetTeam(teamName) ==
  /\ last = NoReply
  /\ IF ~teamExists(teams, teamName)
       THEN last' = Reply("GetTeam", CodeNotFound, NoPR, "")
       ELSE last' = [Reply("GetTeam", OK, NoPR, "") EXCEPT
                       !.team = [TeamName |-> teamName,
                                 Members |-> teamMembers(users, teamName, 1)]]
  /\ UNCHANGED <<teams, users, prs, pr_reviewers, clock, txs>>

\* --------------------------------------------------------- SetUserActive
\* mutant: switching a user off also takes the user's reviewer rows away
SetUserActiveUnassigns(userID, isActive) ==
  /\ last = NoReply
  /\ IF userID \notin DOMAIN users
       THEN /\ last' = Reply("SetUserActive", CodeNotFound, NoPR, "")
            /\ UNCHANGED <<users, pr_reviewers>>
       ELSE /\ users' = [users EXCEPT ![userID].is_active = isActive]
            /\ pr_reviewers' =
                 IF isActive THEN pr_reviewers
                 ELSE [r \in {x \in DOMAIN pr_reviewers : x[2] # userID} |->
                         pr_reviewers[r]]
            /\ last' = Reply("SetUserActive", OK, NoPR, "")
  /\ UNCHANGED <<teams, prs, clock, txs>>

SetUserActive(userID, isActive) ==
  /\ last = NoReply
  /\ IF userID \notin DOMAIN users
       THEN /\ last' = Reply("SetUserActive", CodeNotFound, NoPR, "")
            /\ UNCHANGED users
       ELSE /\ users' = [users EXCEPT ![userID].is_active = isActive]
            /\ last' = Reply("SetUserActive", OK, NoPR, "")
  /\ UNCHANGED <<teams, prs, pr_reviewers, clock, txs>>

\* ---------------------------------------------------- CreatePullRequest
\* mutant: the shuffled ids are returned whole, limit ignored
pickRandomNoLimit(ids, limit) ==
  IF ids = {} \/ limit <= 0 THEN {<<>>}
  ELSE LET k == Cardinality(ids)
       IN {s \in [1..k -> ids] : \A i, j \in 1..k : i # j => s[i] # s[j]}

\* rnd.Shuffle, then the first limit ids: every outcome the generator can give
pickRandom(ids, limit) ==
  IF ids = {} \/ limit <= 0 THEN {<<>>}
  ELSE LET k == IF Cardinality(ids) > limit THEN limit ELSE Cardinality(ids)
       IN {s \in [1..k -> ids] : \A i, j \in 1..k : i # j => s[i] # s[j]}

\* for _, reviewer := range assignments { INSERT INTO pr_reviewers }:
\* the rows afterwards, and whether every insert passed the primary key
RECURSIVE assignReviewers(_, _, _)
assignReviewers(rows, prID, list) ==
  IF list = <<>> THEN [ok |-> TRUE, rows |-> rows]
  ELSE IF ~reviewerKeyFree(rows, prID, Head(list))
         THEN [ok |-> FALSE, rows |-> rows]
         ELSE assignReviewers(insertReviewer(rows, prID, Head(list)),
                              prID, Tail(list))

\* INSERT INTO pull_requests (...) VALUES ($1, $2, $3, 'OPEN'); created_at is
\* read by ListUserReviews' ORDER BY alone and is not kept
newPR(name, author) ==
  [pull_request_name |-> name, author_id |-> author,
   status |-> StatusOpen, merged_at |-> NullTime]

\* mutant: the existence check finds nothing
prExistsNever(ps, id) == FALSE

\* SELECT pull_request_id FROM pull_requests WHERE pull_request_id = $1
\* finds a row
prExists(ps, id) == id \in DOMAIN ps

\* mutant: pull_requests has no primary key
prKeyFreeAlways(ps, id) == TRUE

\* PRIMARY KEY of pull_requests
prKeyFree(ps, id) == id \notin DOMAIN ps

addPR(ps, id, row) == [p \in DOMAIN ps \cup {id} |-> IF p = id THEN row ELSE ps[p]]

\* models.PullRequest built from a row and a reviewer list
prView(id, row, reviewers) ==
  [ID |-> id, Name |-> row.pull_request_name, AuthorID |-> row.author_id,
   Status |-> row.status, AssignedReviewers |-> reviewers,
   MergedAt |-> row.merged_at]

CreatePullRequest(id, name, author) ==
  /\ last = NoReply
  /\ IF prExists(prs, id)
       THEN /\ last' = Reply("CreatePullRequest", CodePRExists, NoPR, "")
            /\ UNCHANGED <<prs, pr_reviewers>>
       ELSE IF author \notin DOMAIN users
       THEN /\ last' = Reply("CreatePullRequest", CodeNotFound, NoPR, "")
            /\ UNCHANGED <<prs, pr_reviewers>>
       ELSE LET candidates ==
                  activeTeamMembers(users, users[author].team_name, author)
            IN \E assignments \in pickRandom(candidates, ReviewerLimit) :
                 LET ins == assignReviewers(pr_reviewers, id, assignments)
                 IN IF ~prKeyFree(prs, id) \/ ~ins.ok
                      THEN /\ last' = Reply("CreatePullRequest", Internal, NoPR, "")
                           /\ UNCHANGED <<prs, pr_reviewers>>
                      ELSE /\ prs' = addPR(prs, id, newPR(name, author))
                           /\ pr_reviewers' = ins.rows
                           /\ last' = Reply("CreatePullRequest", OK,
                                            prView(id, newPR(name, author),
                                                   assignments), "")
  /\ UNCHANGED <<teams, users, clock, txs>>

\* ----------------------------------------------------- MergePullRequest
\* if pr.Status != models.StatusMerged
needsMerge(row) == row.status # StatusMerged

\* mutant: the UPDATE sets the status alone
mergeRowStatusOnly(row, now) == [row EXCEPT !.status = StatusMerged]

\* UPDATE pull_requests SET status = 'MERGED',
\*   merged_at = COALESCE(merged_at, now())
mergeRow(row, now) ==
  [row EXCEPT !.status = StatusMerged,
              !.merged_at = IF row.merged_at.Valid THEN row.merged_at
                            ELSE ValidTime(now)]

\* mutant: the update runs whatever the status, and sets merged_at = now()
mergedRowAlways(row, now) ==
  [row EXCEPT !.status = StatusMerged, !.merged_at = ValidTime(now)]

\* the row a merge leaves: updated if the PR was not merged, as read if it was
mergedRow(row, now) == IF needsMerge(row) THEN mergeRow(row, now) ELSE row

MergePullRequest(id) ==
  /\ last = NoReply
  /\ IF id \notin DOMAIN prs
       THEN /\ last' = Reply("MergePullRequest", CodeNotFound, NoPR, "")
            /\ UNCHANGED prs
       ELSE LET row == mergedRow(prs[id], clock)
            IN /\ prs' = [prs EXCEPT ![id] = row]
               /\ last' = Reply("MergePullRequest", OK,
                                prView(id, row, loadReviewers(pr_reviewers, id)),
                                "")
  /\ UNCHANGED <<teams, users, pr_reviewers, clock, txs>>

\* ----------------------------------------------------- ReassignReviewer
\* mutant: the status check never fires
isMergedNever(row) == FALSE

\* mutant: the comparison inverted
isMergedInverted(row) == row.status # StatusMerged

\* if pr.Status == models.StatusMerged
isMerged(row) == row.status = StatusMerged

\* mutant: the author is not dropped
filterCandidatesKeepAuthor(candidates, assigned, authorID) ==
  {c \in candidates : ~contains(assigned, c)}

\* mutant: the assigned reviewers are not dropped
filterCandidatesKeepAssigned(candidates, assigned, authorID) ==
  {c \in candidates : c # authorID}

\* the candidates left after dropping the assigned ones and the author
filterCandidates(candidates, assigned, authorID) ==
  {c \in candidates : ~contains(assigned, c) /\ c # authorID}

\* DELETE the old row, INSERT the new one
replaceReviewer(rows, prID, oldUserID, newReviewer) ==
  LET deleted == deleteReviewer(rows, prID, oldUserID)
  IN IF reviewerKeyFree(deleted, prID, newReviewer)
       THEN [ok |-> TRUE, rows |-> insertReviewer(deleted, prID, newReviewer)]
       ELSE [ok |-> FALSE, rows |-> rows]

ReassignFail(code) ==
  /\ last' = Reply("ReassignReviewer", code, NoPR, "")
  /\ UNCHANGED pr_reviewers

\* mutant: the outgoing user is looked up before the reviewers are loaded
ReassignReviewerUserFirst(prID, oldUserID) ==
  /\ last = NoReply
  /\ IF prID \notin DOMAIN prs THEN ReassignFail(CodeNotFound)
     ELSE IF isMerged(prs[prID]) THEN ReassignFail(CodePRMerged)
     ELSE IF oldUserID \notin DOMAIN users THEN ReassignFail(CodeNotFound)
     ELSE LET assigned == loadReviewers(pr_reviewers, prID)
              candidates ==
                activeTeamMembers(users, users[oldUserID].team_name, oldUserID)
              filtered ==
                filterCandidates(candidates, assigned, prs[prID].author_id)
          IN IF ~contains(assigned, oldUserID) THEN ReassignFail(CodeNotAssigned)
             ELSE IF filtered = {} THEN ReassignFail(CodeNoCandidate)
             ELSE \E newReviewer \in filtered :
                    LET rep == replaceReviewer(pr_reviewers, prID,
                                               oldUserID, newReviewer)
                    IN IF ~rep.ok THEN ReassignFail(Internal)
                       ELSE /\ pr_reviewers' = rep.rows
                            /\ last' =
                                 Reply("ReassignReviewer", OK,
                                       prView(prID, prs[prID],
                                              loadReviewers(rep.rows, prID)),
                                       newReviewer)
  /\ UNCHANGED <<teams, users, prs, clock, txs>>

ReassignReviewer(prID, oldUserID) ==
  /\ last = NoReply
  /\ IF prID \notin DOMAIN prs THEN ReassignFail(CodeNotFound)
     ELSE IF isMerged(prs[prID]) THEN ReassignFail(CodePRMerged)
     ELSE LET assigned == loadReviewers(pr_reviewers, prID)
          IN IF ~contains(assigned, oldUserID) THEN ReassignFail(CodeNotAssigned)
             ELSE IF oldUserID \notin DOMAIN users THEN ReassignFail(CodeNotFound)
             ELSE LET candidates ==
                        activeTeamMembers(users, users[oldUserID].team_name,
                                          oldUserID)
                      filtered ==
                        filterCandidates(candidates, assigned,
                                         prs[prID].author_id)
                  IN IF filtered = {} THEN ReassignFail(CodeNoCandidate)
                     ELSE \E newReviewer \in filtered :
                            LET rep == replaceReviewer(pr_reviewers, prID,
                                                       oldUserID, newReviewer)
                            IN IF ~rep.ok THEN ReassignFail(Internal)
                               ELSE /\ pr_reviewers' = rep.rows
                                    /\ last' =
                                         Reply("ReassignReviewer", OK,
                                               prView(prID, prs[prID],
                                                      loadReviewers(rep.rows, prID)),
                                               newReviewer)
  /\ UNCHANGED <<teams, users, prs, clock, txs>>

\* ------------------------------------------------------- ListUserReviews
\* models.PullRequestShort
prShort(id, row) ==
  [ID |-> id, Name |-> row.pull_request_name, AuthorID |-> row.author_id,
   Status |-> row.status]

\* mutant: the join keeps the PRs that are OPEN only
reviewsOfOpenOnly(ps, rows, userID) ==
  {prShort(id, ps[id]) :
     id \in {i \in DOMAIN ps : /\ RowCount(rows, i, userID) > 0
                               /\ ps[i].status = StatusOpen}}

\* SELECT ... FROM pull_requests pr JOIN pr_reviewers r ON ... WHERE
\* r.user_id = $1 ORDER BY pr.created_at DESC: the rows of the result (the
\* primary key of pr_reviewers gives one row for a PR; their order is that of
\* created_at, which is not kept)
reviewsOf(ps, rows, userID) ==
  {prShort(id, ps[id]) : id \in {i \in DOMAIN ps : RowCount(rows, i, userID) > 0}}

\* both statements run on s.db, outside any transaction: each reads what is
\* committed
ListUserReviews(userID) ==
  /\ last = NoReply
  /\ IF userID \notin DOMAIN users
       THEN last' = Reply("ListUserReviews", CodeNotFound, NoPR, "")
       ELSE last' = [Reply("ListUserReviews", OK, NoPR, "") EXCEPT
                       !.list = reviewsOf(prs, pr_reviewers, userID)]
  /\ UNCHANGED <<teams, users, prs, pr_reviewers, clock, txs>>

\* ----------------------------------------------------------------- Stats
\* COUNT(r.pull_request_id) of the LEFT JOIN, for one user
assignmentCount(rows, u) ==
  LET ids == {id \in LockPRIds : RowCount(rows, id, u) > 0}
      n[S \in SUBSET ids] ==
        IF S = {} THEN 0
        ELSE LET id == CHOOSE x \in S : TRUE
             IN RowCount(rows, id, u) + n[S \ {id}]
  IN n[ids]

\* ORDER BY cnt DESC, u.user_id
RECURSIVE statsOrder(_, _, _)
statsOrder(us, rows, left) ==
  IF left = {} THEN <<>>
  ELSE LET first ==
             CHOOSE u \in left :
               \A v \in left \ {u} :
                 \/ assignmentCount(rows, u) > assignmentCount(rows, v)
                 \/ /\ assignmentCount(rows, u) = assignmentCount(rows, v)
                    /\ Pos(u) < Pos(v)
       IN <<[UserID |-> first, Username |-> us[first].username,
             Count |-> assignmentCount(rows, first)]>>
          \o statsOrder(us, rows, left \ {first})

statsOf(us, ps, rows) ==
  [TotalPRs |-> Cardinality(DOMAIN ps),
   OpenPRs |-> Cardinality({id \in DOMAIN ps : ps[id].status = StatusOpen}),
   MergedPRs |-> Cardinality({id \in DOMAIN ps : ps[id].status = StatusMerged}),
   Assignments |-> statsOrder(us, rows, DOMAIN us)]

\* both queries run on s.db; no transaction commits between them here
Stats ==
  /\ last = NoReply
  /\ last' = [Reply("Stats", OK, NoPR, "") EXCEPT
                !.stats = statsOf(users, prs, pr_reviewers)]
  /\ UNCHANGED <<teams, users, prs, pr_reviewers, clock, txs>>

\* ------------------------------------------------------------ httpserver
\* the code of writeDecodeError
BadRequest == "BAD_REQUEST"

\* the blank strings among the inputs
Blank == {"", " "}

\* strings.TrimSpace, on the strings the requests are drawn from
trimSpace(str) == IF str \in Blank THEN "" ELSE str

\* sanitizeTeam returns an error
sanitizeTeamFails(teamName, members) ==
  \/ trimSpace(teamName) = ""
  \/ Len(members) = 0
  \/ \E i \in 1..Len(members) :
       trimSpace(members[i].UserID) = "" \/ trimSpace(members[i].Username) = ""

\* the team sanitizeTeam returns
sanitizedMembers(members) ==
  [i \in 1..Len(members) |->
     [members[i] EXCEPT !.UserID = trimSpace(@), !.Username = trimSpace(@)]]

\* writeDecodeError(w, err); return
Rejected(handler) ==
  /\ last = NoReply
  /\ last' = Reply(handler, BadRequest, NoPR, "")
  /\ UNCHANGED <<teams, users, prs, pr_reviewers, clock, txs>>

\* decodes: decodeJSON returned no error
teamAddHandler(decodes, teamName, members) ==
  IF ~decodes \/ sanitizeTeamFails(teamName, members)
    THEN Rejected("teamAddHandler")
    ELSE CreateTeam(trimSpace(teamName), sanitizedMembers(members))

teamGetHandler(teamName) ==
  IF teamName = "" THEN Rejected("teamGetHandler") ELSE GetTeam(teamName)

setActiveHandler(decodes, userID, isActive) ==
  IF ~decodes \/ trimSpace(userID) = ""
    THEN Rejected("setActiveHandler")
    ELSE SetUserActive(trimSpace(userID), isActive)

prCreateHandler(decodes, id, name, author) ==
  IF \/ ~decodes
     \/ trimSpace(id) = "" \/ trimSpace(name) = "" \/ trimSpace(author) = ""
    THEN Rejected("prCreateHandler")
    ELSE CreatePullRequest(trimSpace(id), trimSpace(name), trimSpace(author))

prMergeHandler(decodes, id) ==
  IF ~decodes \/ trimSpace(id) = ""
    THEN Rejected("prMergeHandler")
    ELSE MergePullRequest(trimSpace(id))

\* old_user_id, or old_reviewer_id when old_user_id is empty
prReassignHandler(decodes, prID, oldUser, altField) ==
  LET old == IF oldUser = "" /\ altField # "" THEN altField ELSE oldUser
  IN IF ~decodes \/ trimSpace(prID) = "" \/ trimSpace(old) = ""
       THEN Rejected("prReassignHandler")
       ELSE ReassignReviewer(trimSpace(prID), trimSpace(old))

userReviewsHandler(userID) ==
  IF trimSpace(userID) = ""
    THEN Rejected("userReviewsHandler")
    ELSE ListUserReviews(trimSpace(userID))

statsHandler == Stats

\* the operations of the service
Operations ==
  {"CreateTeam", "GetTeam", "SetUserActive", "CreatePullRequest",
   "MergePullRequest", "ReassignReviewer", "ListUserReviews", "Stats"}

\* a statement of the operation gets an error from the store that is no
\* AppError (the store is down, the context is cancelled): the operation
\* returns it, its transaction rolled back
StoreFails(op) ==
  /\ last = NoReply
  /\ last' = Reply(op, Internal, NoPR, "")
  /\ UNCHANGED <<teams, users, prs, pr_reviewers, clock, txs>>

\* the codes of the AppErrors
AppCodes ==
  {CodeTeamExists, CodePRExists, CodePRMerged, CodeNotAssigned,
   CodeNoCandidate, CodeNotFound}

\* mutant: every AppError but NotFound is made with 409
appErrorStatusConflict(op, code) == IF code = CodeNotFound THEN 404 ELSE 409

\* the Status the operation's newAppError calls give the AppError of a code
appErrorStatus(op, code) ==
  CASE op = "CreateTeam" /\ code = CodeTeamExists -> 400
    [] op = "GetTeam" /\ code = CodeNotFound -> 404
    [] op = "SetUserActive" /\ code = CodeNotFound -> 404
    [] op = "CreatePullRequest" /\ code = CodePRExists -> 409
    [] op = "CreatePullRequest" /\ code = CodeNotFound -> 404
    [] op = "MergePullRequest" /\ code = CodeNotFound -> 404
    [] op = "ReassignReviewer" /\ code = CodeNotFound -> 404
    [] op = "ReassignReviewer" /\ code = CodePRMerged -> 409
    [] op = "ReassignReviewer" /\ code = CodeNotAssigned -> 409
    [] op = "ReassignReviewer" /\ code = CodeNoCandidate -> 409
    [] op = "ListUserReviews" /\ code = CodeNotFound -> 404

\* errors.As finds an *AppError: its Status and Code; else 500 and INTERNAL
writeAppError(op, err) ==
  IF err \in AppCodes
    THEN [status |-> appErrorStatus(op, err), code |-> err]
    ELSE [status |-> 500, code |-> "INTERNAL"]

writeDecodeError == [status |-> 400, code |-> "BAD_REQUEST"]

\* the status and error code of the response the handler writes for a reply
Response(reply) ==
  IF reply.err = BadRequest THEN writeDecodeError
  ELSE IF reply.err # OK THEN writeAppError(reply.op, reply.err)
  ELSE [status |-> IF reply.op \in {"CreateTeam", "CreatePullRequest"}
                     THEN 201 ELSE 200,
        code |-> ""]

\* the handler writes the reply; the next call may start
Respond ==
  /\ last # NoReply
  /\ last' = NoReply
  /\ UNCHANGED <<teams, users, prs, pr_reviewers, clock, txs>>

\* the store's clock advances
Tick ==
  /\ clock < MaxTime
  /\ clock' = clock + 1
  /\ UNCHANGED <<teams, users, prs, pr_reviewers, last, txs>>

\* ------------------------------------------------ transactions (SpecTx)
\* the request handlers that run at the same time
Procs == {"p1", "p2"}

\* what SpecTx draws from
TxTeams == {"t1"}
TxUsers == {"u1", "u2", "u3"}
TxPRIds == {"pr1"}
\* the one member list that names every user of TxUsers
TxRequests == {m \in SortedRequests : {m[i].UserID : i \in 1..Len(m)} = TxUsers}

NoRow == [pull_request_name |-> "", author_id |-> "", status |-> "",
          merged_at |-> NullTime]
NoMember == [UserID |-> "", Username |-> "", IsActive |-> FALSE]

\* one write of a transaction, not yet committed
Write(k, key, u, member, row) ==
  [k |-> k, key |-> key, u |-> u, member |-> member, row |-> row]

\* no transaction open: the handler waits for a request
Idle ==
  [op |-> "", pc |-> "idle", team |-> "", members |-> <<>>, i |-> 0,
   id |-> "", name |-> "", user |-> "", row |-> NoRow, list |-> <<>>,
   cands |-> {}, new |-> "", began |-> 0, locked |-> 0, log |-> <<>>,
   locks |-> {}, err |-> OK]

\* the committed tables as one value
Tables(ts, us, ps, rows) == [teams |-> ts, users |-> us, prs |-> ps, rows |-> rows]
Committed == Tables(teams, users, prs, pr_reviewers)

applyWrite(st, w) ==
  CASE w.k = "team" -> [st EXCEPT !.teams = @ \cup {w.key}]
    [] w.k = "user" -> [st EXCEPT !.users = upsertUser(@, w.member, w.key)]
    [] w.k = "pr"   -> [st EXCEPT !.prs = addPR(@, w.key, w.row)]
    [] w.k = "rev+" -> [st EXCEPT !.rows = insertReviewer(@, w.key, w.u)]
    [] w.k = "rev-" -> [st EXCEPT !.rows = deleteReviewer(@, w.key, w.u)]

RECURSIVE applyLog(_, _)
applyLog(st, log) ==
  IF log = <<>> THEN st ELSE applyLog(applyWrite(st, Head(log)), Tail(log))

\* what a statement of p reads: the committed rows and p's own writes
\* (READ COMMITTED)
View(p) == applyLog(Committed, txs[p].log)

\* mutant: SELECT without FOR UPDATE, no statement waits for a row lock
FreeAlways(p, key) == TRUE

\* no other open transaction holds the row lock
Free(p, key) == \A q \in Procs \ {p} : key \notin txs[q].locks

\* mutant: the statements run outside a transaction, each write is durable
\* as soon as it is made
rollbackKeepsWrites(st, log) == applyLog(st, log)

\* defer tx.Rollback(): the tables after a transaction that did not commit
rollbackStore(st, log) == st

\* tx.Commit(): the tables after a transaction that committed
commitStore(st, log) == applyLog(st, log)

SetStore(st) ==
  /\ teams' = st.teams
  /\ users' = st.users
  /\ prs' = st.prs
  /\ pr_reviewers' = st.rows

\* a statement of p ran; the transaction goes on (a reply that is being
\* written is written first)
Go(p, tx) ==
  /\ last = NoReply
  /\ txs' = [txs EXCEPT ![p] = tx]
  /\ UNCHANGED <<teams, users, prs, pr_reviewers, clock, last>>

\* mutant: no deferred Rollback: the handler returns the error and the
\* transaction stays open with its locks
AbortKeepsLocks(p, code) ==
  /\ last = NoReply
  /\ txs' = [txs EXCEPT ![p] = [Idle EXCEPT !.pc = "done", !.err = code,
                                            !.op = txs[p].op,
                                            !.log = txs[p].log,
                                            !.locks = txs[p].locks]]
  /\ SetStore(rollbackStore(Committed, txs[p].log))
  /\ UNCHANGED <<clock, last>>

\* return err: the deferred Rollback runs and the locks are released; the
\* handler is left with the error (and, here, the writes it had made)
Abort(p, code) ==
  /\ last = NoReply
  /\ txs' = [txs EXCEPT ![p] = [Idle EXCEPT !.pc = "done", !.err = code,
                                            !.op = txs[p].op,
                                            !.log = txs[p].log]]
  /\ SetStore(rollbackStore(Committed, txs[p].log))
  /\ UNCHANGED <<clock, last>>

\* tx.Commit() returned nil: the locks are released and the handler is left
\* with its arguments and with what it returns
Commit(p) ==
  /\ last = NoReply
  /\ txs' = [txs EXCEPT ![p] = [Idle EXCEPT !.pc = "done", !.err = OK,
                                            !.op = txs[p].op,
                                            !.id = txs[p].id,
                                            !.user = txs[p].user,
                                            !.row = txs[p].row,
                                            !.list = txs[p].list,
                                            !.new = txs[p].new]]
  /\ SetStore(commitStore(Committed, txs[p].log))
  /\ UNCHANGED <<clock, last>>

At(p, op, pc) == txs[p].op = op /\ txs[p].pc = pc

\* ---- s.rnd, the one *rand.Rand of the Service, which every handler uses
\* p is inside a call on s.rnd (rnd.Shuffle, rnd.Intn)
InRnd(p) == txs[p].pc = "pick"

\* another handler is inside a call on s.rnd at the same time: rand.Rand has
\* no lock, the two calls read and write the generator's state unordered
Racing(p) == \E q \in Procs \ {p} : InRnd(q)

\* what a call on s.rnd that picks from choices can come to: one of the
\* choices, whatever the state of the generator; and, when the generator's
\* state is written by two calls at once, also a panic of the generator (an
\* index out of range), which picks nothing
rndOutcomes(p, choices) ==
  {[panic |-> FALSE, val |-> c] : c \in choices}
    \cup (IF Racing(p)
            THEN {[panic |-> TRUE, val |-> CHOOSE c \in choices : TRUE]}
            ELSE {})

\* s.db.BeginTx: now() is the time the transaction began
Begin(p, tx) ==
  /\ txs[p].pc = "idle"
  /\ Go(p, [tx EXCEPT !.began = clock])

\* ---- CreateTeam, statement by statement
TxCreateTeamBegin(p, teamName, members) ==
  Begin(p, [Idle EXCEPT !.op = "CreateTeam", !.pc = "check",
                        !.team = teamName, !.members = members, !.i = 1])

\* SELECT team_name FROM teams WHERE team_name = $1
TxCreateTeamCheck(p) ==
  /\ At(p, "CreateTeam", "check")
  /\ IF teamExists(View(p).teams, txs[p].team)
       THEN Abort(p, CodeTeamExists)
       ELSE Go(p, [txs[p] EXCEPT !.pc = "insert"])

\* INSERT INTO teams: waits for a transaction that inserted the same name;
\* a committed row of that name is a unique violation, wrapped by fmt.Errorf
TxCreateTeamInsert(p) ==
  /\ At(p, "CreateTeam", "insert")
  /\ Free(p, <<"team", txs[p].team>>)
  /\ IF txs[p].team \in teams
       THEN Abort(p, Internal)
       ELSE Go(p, [txs[p] EXCEPT
                     !.pc = "upsert",
                     !.locks = @ \cup {<<"team", txs[p].team>>},
                     !.log = Append(@, Write("team", txs[p].team, "",
                                             NoMember, NoRow))])

\* one pass of the loop over team.Members: the upsert of members[i]
TxCreateTeamUpsert(p) ==
  /\ At(p, "CreateTeam", "upsert")
  /\ LET tx == txs[p]
         member == tx.members[tx.i]
     IN /\ Free(p, <<"user", member.UserID>>)
        /\ Go(p, [tx EXCEPT
                    !.pc = IF tx.i = Len(tx.members) THEN "commit" ELSE "upsert",
                    !.i = @ + 1,
                    !.locks = @ \cup {<<"user", member.UserID>>},
                    !.log = Append(@, Write("user", tx.team, "", member, NoRow))])

TxCreateTeamCommit(p) == At(p, "CreateTeam", "commit") /\ Commit(p)

\* ---- CreatePullRequest, statement by statement
TxCreatePRBegin(p, id, name, author) ==
  Begin(p, [Idle EXCEPT !.op = "CreatePullRequest", !.pc = "check",
                        !.id = id, !.name = name, !.user = author])

\* SELECT pull_request_id FROM pull_requests WHERE pull_request_id = $1
TxCreatePRCheck(p) ==
  /\ At(p, "CreatePullRequest", "check")
  /\ IF prExists(View(p).prs, txs[p].id)
       THEN Abort(p, CodePRExists)
       ELSE Go(p, [txs[p] EXCEPT !.pc = "author"])

\* SELECT ... FROM users WHERE user_id = $1
TxCreatePRAuthor(p) ==
  /\ At(p, "CreatePullRequest", "author")
  /\ IF txs[p].user \notin DOMAIN View(p).users
       THEN Abort(p, CodeNotFound)
       ELSE Go(p, [txs[p] EXCEPT
                     !.pc = "insert",
                     !.team = View(p).users[txs[p].user].team_name])

\* INSERT INTO pull_requests: waits for a transaction that inserted the same
\* id; a committed row of that id is a unique violation
TxCreatePRInsert(p) ==
  /\ At(p, "CreatePullRequest", "insert")
  /\ Free(p, <<"pr", txs[p].id>>)
  /\ IF ~prKeyFree(prs, txs[p].id)
       THEN Abort(p, Internal)
       ELSE Go(p, [txs[p] EXCEPT
                     !.pc = "candidates",
                     !.locks = @ \cup {<<"pr", txs[p].id>>},
                     !.row = newPR(txs[p].name, txs[p].user),
                     !.log = Append(@, Write("pr", txs[p].id, "", NoMember,
                                             newPR(txs[p].name, txs[p].user)))])

\* s.activeTeamMembers, then the call of pickRandom, which returns at once
\* when there is no candidate and calls rnd.Shuffle otherwise
TxCreatePRCandidates(p) ==
  /\ At(p, "CreatePullRequest", "candidates")
  /\ LET candidates ==
           activeTeamMembers(View(p).users, txs[p].team, txs[p].user)
     IN IF candidates = {}
          THEN Go(p, [txs[p] EXCEPT !.pc = "commit", !.list = <<>>, !.i = 1])
          ELSE Go(p, [txs[p] EXCEPT !.pc = "pick", !.cands = candidates])

\* rnd.Shuffle goes on and pickRandom returns; a panic unwinds the handler,
\* the deferred Rollback runs
TxCreatePRPick(p) ==
  /\ At(p, "CreatePullRequest", "pick")
  /\ \E outcome \in rndOutcomes(p, pickRandom(txs[p].cands, ReviewerLimit)) :
       IF outcome.panic
         THEN Abort(p, Internal)
         ELSE Go(p, [txs[p] EXCEPT !.pc = "assign", !.list = outcome.val,
                                   !.i = 1, !.cands = {}])

\* one pass of the loop over assignments: INSERT INTO pr_reviewers
TxCreatePRAssign(p) ==
  /\ At(p, "CreatePullRequest", "assign")
  /\ LET tx == txs[p]
         reviewer == tx.list[tx.i]
     IN IF ~reviewerKeyFree(View(p).rows, tx.id, reviewer)
          THEN Abort(p, Internal)
          ELSE Go(p, [tx EXCEPT
                        !.pc = IF tx.i = Len(tx.list) THEN "commit" ELSE "assign",
                        !.i = @ + 1,
                        !.log = Append(@, Write("rev+", tx.id, reviewer,
                                                NoMember, NoRow))])

TxCreatePRCommit(p) == At(p, "CreatePullRequest", "commit") /\ Commit(p)

\* ---- SELECT ... FROM pull_requests WHERE pull_request_id = $1 FOR UPDATE
\* no committed row: no row is returned and nothing is waited for; locked is
\* the time at which the statement returns the row, the lock granted
lockPR(p, next) ==
  IF txs[p].id \notin DOMAIN prs
    THEN Abort(p, CodeNotFound)
    ELSE /\ Free(p, <<"pr", txs[p].id>>)
         /\ IF next = "merged"
              THEN Abort(p, CodePRMerged)
              ELSE Go(p, [txs[p] EXCEPT
                            !.pc = next,
                            !.locks = @ \cup {<<"pr", txs[p].id>>},
                            !.locked = clock,
                            !.row = prs[txs[p].id]])

\* ---- MergePullRequest, statement by statement
TxMergeBegin(p, id) ==
  Begin(p, [Idle EXCEPT !.op = "MergePullRequest", !.pc = "lock", !.id = id])

TxMergeLock(p) ==
  /\ At(p, "MergePullRequest", "lock")
  /\ lockPR(p, IF txs[p].id \in DOMAIN prs /\ needsMerge(prs[txs[p].id])
                 THEN "update" ELSE "load")

\* UPDATE pull_requests SET status, merged_at = COALESCE(merged_at, now())
TxMergeUpdate(p) ==
  /\ At(p, "MergePullRequest", "update")
  /\ LET tx == txs[p]
         row == mergeRow(View(p).prs[tx.id], tx.began)
     IN Go(p, [tx EXCEPT
                 !.pc = "load",
                 !.row = row,
                 !.log = Append(@, Write("pr", tx.id, "", NoMember, row))])

TxMergeLoad(p) ==
  /\ At(p, "MergePullRequest", "load")
  /\ Go(p, [txs[p] EXCEPT !.pc = "commit",
                          !.list = loadReviewers(View(p).rows, txs[p].id)])

TxMergeCommit(p) == At(p, "MergePullRequest", "commit") /\ Commit(p)

\* ---- ReassignReviewer, statement by statement
TxReassignBegin(p, prID, oldUserID) ==
  Begin(p, [Idle EXCEPT !.op = "ReassignReviewer", !.pc = "lock",
                        !.id = prID, !.user = oldUserID])

TxReassignLock(p) ==
  /\ At(p, "ReassignReviewer", "lock")
  /\ lockPR(p, IF txs[p].id \in DOMAIN prs /\ isMerged(prs[txs[p].id])
                 THEN "merged" ELSE "load")

\* mutant: the reviewers are loaded and the membership check is left out
TxReassignLoadUnchecked(p) ==
  /\ At(p, "ReassignReviewer", "load")
  /\ Go(p, [txs[p] EXCEPT !.pc = "user",
                          !.list = loadReviewers(View(p).rows, txs[p].id)])

TxReassignLoad(p) ==
  /\ At(p, "ReassignReviewer", "load")
  /\ LET assigned == loadReviewers(View(p).rows, txs[p].id)
     IN IF ~contains(assigned, txs[p].user)
          THEN Abort(p, CodeNotAssigned)
          ELSE Go(p, [txs[p] EXCEPT !.pc = "user", !.list = assigned])

TxReassignUser(p) ==
  /\ At(p, "ReassignReviewer", "user")
  /\ IF txs[p].user \notin DOMAIN View(p).users
       THEN Abort(p, CodeNotFound)
       ELSE Go(p, [txs[p] EXCEPT
                     !.pc = "candidates",
                     !.team = View(p).users[txs[p].user].team_name])

TxReassignCandidates(p) ==
  /\ At(p, "ReassignReviewer", "candidates")
  /\ LET tx == txs[p]
         candidates == activeTeamMembers(View(p).users, tx.team, tx.user)
         filtered == filterCandidates(candidates, tx.list, tx.row.author_id)
     IN IF filtered = {}
          THEN Abort(p, CodeNoCandidate)
          ELSE Go(p, [tx EXCEPT !.pc = "pick", !.cands = filtered])

\* filtered[s.rnd.Intn(len(filtered))]
TxReassignPick(p) ==
  /\ At(p, "ReassignReviewer", "pick")
  /\ \E outcome \in rndOutcomes(p, txs[p].cands) :
       IF outcome.panic
         THEN Abort(p, Internal)
         ELSE Go(p, [txs[p] EXCEPT !.pc = "delete", !.new = outcome.val,
                                   !.cands = {}])

\* mutant: the DELETE is run on s.db, outside the transaction
TxReassignDeleteOnDB(p) ==
  /\ At(p, "ReassignReviewer", "delete")
  /\ last = NoReply
  /\ pr_reviewers' = deleteReviewer(pr_reviewers, txs[p].id, txs[p].user)
  /\ txs' = [txs EXCEPT ![p].pc = "insert"]
  /\ UNCHANGED <<teams, users, prs, clock, last>>

\* DELETE FROM pr_reviewers WHERE pull_request_id = $1 AND user_id = $2
TxReassignDelete(p) ==
  /\ At(p, "ReassignReviewer", "delete")
  /\ Go(p, [txs[p] EXCEPT
              !.pc = "insert",
              !.log = Append(@, Write("rev-", txs[p].id, txs[p].user,
                                      NoMember, NoRow))])

TxReassignInsert(p) ==
  /\ At(p, "ReassignReviewer", "insert")
  /\ IF ~reviewerKeyFree(View(p).rows, txs[p].id, txs[p].new)
       THEN Abort(p, Internal)
       ELSE Go(p, [txs[p] EXCEPT
                     !.pc = "reload",
                     !.log = Append(@, Write("rev+", txs[p].id, txs[p].new,
                                             NoMember, NoRow))])

TxReassignReload(p) ==
  /\ At(p, "ReassignReviewer", "reload")
  /\ Go(p, [txs[p] EXCEPT !.pc = "commit",
                          !.list = loadReviewers(View(p).rows, txs[p].id)])

TxReassignCommit(p) == At(p, "ReassignReviewer", "commit") /\ Commit(p)

\* the statement p is about to run returns an error that is no AppError (the
\* store fails, the context is cancelled): the handler returns it
TxFail(p) ==
  /\ txs[p].pc \notin {"idle", "done"}
  /\ Abort(p, Internal)

\* the handler writes the reply and serves the next request
TxRespond(p) ==
  /\ txs[p].pc = "done"
  /\ Go(p, Idle)

\* SetUserActive is one statement in its own transaction; it waits for an
\* open transaction that wrote the user's row (its reply is not kept here)
TxSetUserActive(userID, isActive) ==
  /\ last = NoReply
  /\ \A q \in Procs : <<"user", userID>> \notin txs[q].locks
  /\ userID \in DOMAIN users
  /\ users' = [users EXCEPT ![userID].is_active = isActive]
  /\ UNCHANGED <<teams, prs, pr_reviewers, clock, last, txs>>

Init ==
  /\ teams = {}
  /\ users = <<>>
  /\ prs = <<>>
  /\ pr_reviewers = EmptyBag
  /\ clock = 1
  /\ last = NoReply
  /\ txs = [p \in Procs |-> Idle]

Next ==
  \/ \E t \in TeamNames, m \in SortedRequests : CreateTeam(t, m)
  \/ \E u \in UserIds, a \in BOOLEAN : SetUserActive(u, a)
  \/ \E id \in PRIds, n \in PRNames, a \in UserIds : CreatePullRequest(id, n, a)
  \/ \E id \in PRIds : MergePullRequest(id)
  \/ \E id \in PRIds, u \in UserIds : ReassignReviewer(id, u)
  \/ \E u \in UserIds : ListUserReviews(u)
  \/ Respond
  \/ Tick

Spec == Init /\ [][Next]_vars

\* the team and membership manager alone (no operation on pull requests
\* writes teams or users), with the wider member lists
NextTeams ==
  \/ \E t \in TeamNames, m \in ShortRequests : CreateTeam(t, m)
  \/ \E u \in UserIds, a \in BOOLEAN : SetUserActive(u, a)
  \/ Respond

SpecTeams == Init /\ [][NextTeams]_vars

NextTx ==
  \/ \E p \in Procs, t \in TxTeams, m \in TxRequests : TxCreateTeamBegin(p, t, m)
  \/ \E p \in Procs : TxCreateTeamCheck(p)
  \/ \E p \in Procs : TxCreateTeamInsert(p)
  \/ \E p \in Procs : TxCreateTeamUpsert(p)
  \/ \E p \in Procs : TxCreateTeamCommit(p)
  \/ \E p \in Procs, id \in TxPRIds, n \in PRNames, a \in TxUsers :
       TxCreatePRBegin(p, id, n, a)
  \/ \E p \in Procs : TxCreatePRCheck(p)
  \/ \E p \in Procs : TxCreatePRAuthor(p)
  \/ \E p \in Procs : TxCreatePRInsert(p)
  \/ \E p \in Procs : TxCreatePRCandidates(p)
  \/ \E p \in Procs : TxCreatePRPick(p)
  \/ \E p \in Procs : TxCreatePRAssign(p)
  \/ \E p \in Procs : TxCreatePRCommit(p)
  \/ \E p \in Procs, id \in TxPRIds : TxMergeBegin(p, id)
  \/ \E p \in Procs : TxMergeLock(p)
  \/ \E p \in Procs : TxMergeUpdate(p)
  \/ \E p \in Procs : TxMergeLoad(p)
  \/ \E p \in Procs : TxMergeCommit(p)
  \/ \E p \in Procs, id \in TxPRIds, u \in TxUsers : TxReassignBegin(p, id, u)
  \/ \E p \in Procs : TxReassignLock(p)
  \/ \E p \in Procs : TxReassignLoad(p)
  \/ \E p \in Procs : TxReassignUser(p)
  \/ \E p \in Procs : TxReassignCandidates(p)
  \/ \E p \in Procs : TxReassignPick(p)
  \/ \E p \in Procs : TxReassignDelete(p)
  \/ \E p \in Procs : TxReassignInsert(p)
  \/ \E p \in Procs : TxReassignReload(p)
  \/ \E p \in Procs : TxReassignCommit(p)
  \/ \E p \in Procs : TxFail(p)
  \/ \E p \in Procs : TxRespond(p)
  \/ \E u \in TxUsers, a \in BOOLEAN : TxSetUserActive(u, a)

SpecTx == Init /\ [][NextTx]_vars

\* ---- the handlers, one request at a time, and a failing store (SpecHTTP)
\* the member lists of the requests: the full one, none, one with a blank id
HTTPRequests ==
  TxRequests \cup {<<>>, <<[UserID |-> " ", Username |-> "a", IsActive |-> TRUE]>>}

NextHTTP ==
  \/ \E d \in BOOLEAN, t \in TxTeams \cup Blank, m \in HTTPRequests :
       teamAddHandler(d, t, m)
  \/ \E t \in TxTeams \cup Blank : teamGetHandler(t)
  \/ \E d \in BOOLEAN, u \in TxUsers \cup Blank, a \in BOOLEAN :
       setActiveHandler(d, u, a)
  \/ \E d \in BOOLEAN, id \in TxPRIds \cup Blank, n \in PRNames \cup Blank,
        a \in TxUsers \cup Blank :
       prCreateHandler(d, id, n, a)
  \/ \E d \in BOOLEAN, id \in TxPRIds \cup Blank : prMergeHandler(d, id)
  \/ \E d \in BOOLEAN, id \in TxPRIds \cup Blank, u, alt \in TxUsers \cup Blank :
       prReassignHandler(d, id, u, alt)
  \/ \E u \in TxUsers \cup Blank : userReviewsHandler(u)
  \/ statsHandler
  \/ \E op \in Operations : StoreFails(op)
  \/ Respond

SpecHTTP == Init /\ [][NextHTTP]_vars

\* ---- merges, reassignments and reads on two PRs (SpecPR)
\* the one user SpecPR switches off and on
LockToggle == {"u4"}
\* the users SpecPR's reassignments name: the reviewers of InitPR
LockOld == {"u2", "u3"}

\* the tables after CreateTeam(t1, u1..u4), CreatePullRequest(pr1, u1), which
\* chose u2 and u3, and CreatePullRequest(pr2, u2), made while u3 was the
\* author's one active teammate
InitPR ==
  /\ teams = {"t1"}
  /\ users = [u \in UserIds |->
               [username |-> "a", team_name |-> "t1", is_active |-> TRUE]]
  /\ prs = [id \in LockPRIds |->
             newPR("n1", IF id = "pr1" THEN "u1" ELSE "u2")]
  /\ pr_reviewers = SetToBag({<<"pr1", "u2">>, <<"pr1", "u3">>, <<"pr2", "u3">>})
  /\ clock = 1
  /\ last = NoReply
  /\ txs = [p \in Procs |-> Idle]

NextPR ==
  \/ \E p \in Procs, id \in LockPRIds : TxMergeBegin(p, id)
  \/ \E p \in Procs : TxMergeLock(p)
  \/ \E p \in Procs : TxMergeUpdate(p)
  \/ \E p \in Procs : TxMergeLoad(p)
  \/ \E p \in Procs : TxMergeCommit(p)
  \/ \E p \in Procs, id \in LockPRIds, u \in LockOld : TxReassignBegin(p, id, u)
  \/ \E p \in Procs : TxReassignLock(p)
  \/ \E p \in Procs : TxReassignLoad(p)
  \/ \E p \in Procs : TxReassignUser(p)
  \/ \E p \in Procs : TxReassignCandidates(p)
  \/ \E p \in Procs : TxReassignPick(p)
  \/ \E p \in Procs : TxReassignDelete(p)
  \/ \E p \in Procs : TxReassignInsert(p)
  \/ \E p \in Procs : TxReassignReload(p)
  \/ \E p \in Procs : TxReassignCommit(p)
  \/ \E p \in Procs : TxFail(p)
  \/ \E p \in Procs : TxRespond(p)
  \/ \E u \in LockToggle, a \in BOOLEAN : TxSetUserActive(u, a)
  \/ \E u \in UserIds : ListUserReviews(u)
  \/ Stats
  \/ Respond

SpecPR == InitPR /\ [][NextPR]_vars

\* ---- merges and reassignments on pr1 while the store's clock advances
\* (SpecClock)
ClockPRIds == {"pr1"}

NextClock ==
  \/ \E p \in Procs, id \in ClockPRIds : TxMergeBegin(p, id)
  \/ \E p \in Procs : TxMergeLock(p)
  \/ \E p \in Procs : TxMergeUpdate(p)
  \/ \E p \in Procs : TxMergeLoad(p)
  \/ \E p \in Procs : TxMergeCommit(p)
  \/ \E p \in Procs, id \in ClockPRIds, u \in LockOld : TxReassignBegin(p, id, u)
  \/ \E p \in Procs : TxReassignLock(p)
  \/ \E p \in Procs : TxReassignLoad(p)
  \/ \E p \in Procs : TxReassignUser(p)
  \/ \E p \in Procs : TxReassignCandidates(p)
  \/ \E p \in Procs : TxReassignPick(p)
  \/ \E p \in Procs : TxReassignDelete(p)
  \/ \E p \in Procs : TxReassignInsert(p)
  \/ \E p \in Procs : TxReassignReload(p)
  \/ \E p \in Procs : TxReassignCommit(p)
  \/ \E p \in Procs : TxFail(p)
  \/ \E p \in Procs : TxRespond(p)
  \/ Tick

SpecClock == InitPR /\ [][NextClock]_vars

\* ---- merges and reassignments on two PRs under fair scheduling (SpecLive)
\* the statement of p's transaction that takes the row lock of the PR
TxLock(p) == TxMergeLock(p) \/ TxReassignLock(p)

\* the statements of p's transaction after the lock, and the reply
TxStep(p) ==
  \/ TxMergeUpdate(p)
  \/ TxMergeLoad(p)
  \/ TxMergeCommit(p)
  \/ TxReassignLoad(p)
  \/ TxReassignUser(p)
  \/ TxReassignCandidates(p)
  \/ TxReassignPick(p)
  \/ TxReassignDelete(p)
  \/ TxReassignInsert(p)
  \/ TxReassignReload(p)
  \/ TxReassignCommit(p)
  \/ TxRespond(p)

NextLive ==
  \/ \E p \in Procs, id \in LockPRIds : TxMergeBegin(p, id)
  \/ \E p \in Procs, id \in LockPRIds, u \in LockOld : TxReassignBegin(p, id, u)
  \/ \E p \in Procs : TxLock(p)
  \/ \E p \in Procs : TxStep(p)
  \/ \E p \in Procs : TxFail(p)

\* a goroutine that can run its next statement does; the store grants a row
\* lock to the transactions that wait for it in turn, so one that asks again
\* and again is not passed over forever; requests need not arrive and the
\* store need not fail
FairLive ==
  \A p \in Procs : WF_vars(TxStep(p)) /\ SF_vars(TxLock(p))

SpecLive == InitPR /\ [][NextLive]_vars /\ FairLive

\* ================================================================ claims
\* a call of op returns in this step
Called(op) == last = NoReply /\ last'.op = op

Returned(op, err) == last.op = op /\ last.err = err

\* the users with a row in pr_reviewers for prID
Reviewers(rows, prID) == {u \in UserIds : RowCount(rows, prID, u) > 0}

\* every (pull_request_id, user_id) is there at most once
NoDuplicateRows(rows) == \A id \in PRIds, u \in UserIds : RowCount(rows, id, u) <= 1

Min(a, b) == IF a < b THEN a ELSE b

\* the active members of team t other than user x, read off the users table
ActiveOthers(us, t, x) ==
  {u \in UserIds : /\ u \in DOMAIN us
                   /\ u # x
                   /\ us[u].is_active = TRUE
                   /\ us[u].team_name = t}

\* ---- C1
C1_Step ==
  (Called("CreatePullRequest") /\ last'.err = OK) =>
    \E id \in PRIds :
      /\ id \notin DOMAIN prs
      /\ id \in DOMAIN prs'
      /\ LET author == prs'[id].author_id
             pool == ActiveOthers(users, users[author].team_name, author)
             stored == Reviewers(pr_reviewers', id)
             returned == last'.pr.AssignedReviewers
         IN /\ Cardinality(stored) = Min(2, Cardinality(pool))
            /\ stored \subseteq pool
            /\ author \notin stored
            /\ Range(returned) = stored
            /\ Len(returned) = Cardinality(stored)
            /\ NoDuplicateRows(pr_reviewers')

\* C1: a successful CreatePullRequest stores and returns exactly
\* min(2, number of active teammates of the author other than the author)
\* reviewers, each of them such a teammate, never the author; with no such
\* teammate the PR is created with no reviewer.
C1_CreateAssignsMinTwo == [][C1_Step]_vars

\* a PR was just created with two reviewers while a third active teammate
\* of the author was left out
C1_Witness ==
  /\ Returned("CreatePullRequest", OK)
  /\ Len(last.pr.AssignedReviewers) = 2
  /\ \E u \in DOMAIN users :
       /\ u # last.pr.AuthorID
       /\ users[u].is_active
       /\ users[u].team_name = users[last.pr.AuthorID].team_name
       /\ ~contains(last.pr.AssignedReviewers, u)

\* ---- C2
C2_Step ==
  (Called("ReassignReviewer") /\ last'.err = OK) =>
    \E id \in DOMAIN prs, old \in UserIds :
      LET before == Reviewers(pr_reviewers, id)
          after == Reviewers(pr_reviewers', id)
          new == last'.replaced_by
      IN /\ old \in before
         /\ new \notin before
         /\ after = (before \ {old}) \cup {new}
         /\ Cardinality(after) = Cardinality(before)
         /\ NoDuplicateRows(pr_reviewers')
         /\ new # prs[id].author_id
         /\ new \in DOMAIN users
         /\ users[new].is_active
         /\ users[new].team_name = users[old].team_name
         /\ Range(last'.pr.AssignedReviewers) = after
         /\ \A other \in PRIds \ {id} :
              Reviewers(pr_reviewers', other) = Reviewers(pr_reviewers, other)

\* C2: a successful ReassignReviewer removes the old reviewer and adds exactly
\* one new one, so the reviewer count is unchanged; the new reviewer is not
\* the author, was not assigned before, and is an active member of the
\* outgoing reviewer's team.
C2_ReassignKeepsCount == [][C2_Step]_vars

\* a reassignment just replaced a reviewer by a user of a team that is not
\* the author's
C2_Witness ==
  /\ Returned("ReassignReviewer", OK)
  /\ users[last.replaced_by].team_name # users[last.pr.AuthorID].team_name

\* ---- C3
C3_Step ==
  /\ Called("MergePullRequest") =>
     \A id \in DOMAIN prs :
       MergePullRequest(id) =>
         /\ last'.err = OK
         /\ last'.pr.Status = StatusMerged
         /\ last'.pr.MergedAt.Valid
         /\ last'.pr.MergedAt = prs'[id].merged_at
         /\ prs[id].status = StatusMerged =>
              /\ UNCHANGED store
              /\ last'.pr.MergedAt = prs[id].merged_at
  /\ \A id \in DOMAIN prs :
       prs[id].status = StatusMerged =>
         id \in DOMAIN prs' /\ prs'[id] = prs[id]

\* C3: MergePullRequest of an existing PR succeeds and returns status MERGED
\* with the stored merge timestamp; on a PR already MERGED it changes nothing
\* and returns the timestamp of the first merge, which no operation in
\* between changes.
C3_MergeIdempotent == [][C3_Step]_vars

\* a merge has just returned, later than the merge timestamp it returned
C3_Witness ==
  /\ Returned("MergePullRequest", OK)
  /\ last.pr.MergedAt.Valid
  /\ last.pr.MergedAt.Time < clock

\* ---- C4
C4_Step ==
  Called("ReassignReviewer") =>
  \A id \in DOMAIN prs, old \in UserIds :
    (ReassignReviewer(id, old) /\ prs[id].status = StatusMerged) =>
      /\ last'.err = CodePRMerged
      /\ UNCHANGED store

\* C4: ReassignReviewer on a MERGED PR fails with PRMerged whoever the old
\* reviewer is, and leaves every table as it was.
C4_ReassignMergedFails == [][C4_Step]_vars

\* a reassignment was just refused on a merged PR that has reviewers
C4_Witness ==
  /\ Returned("ReassignReviewer", CodePRMerged)
  /\ \E id \in DOMAIN prs :
       prs[id].status = StatusMerged /\ Reviewers(pr_reviewers, id) # {}

\* ---- C5
C5_Step ==
  Called("ReassignReviewer") =>
  \A id \in DOMAIN prs, old \in UserIds :
    (/\ ReassignReviewer(id, old)
     /\ prs[id].status = StatusOpen
     /\ old \notin Reviewers(pr_reviewers, id)) =>
      /\ last'.err = CodeNotAssigned
      /\ UNCHANGED store

\* C5: ReassignReviewer on an OPEN PR naming a user who is not one of its
\* reviewers fails with NotAssigned and leaves every table as it was.
C5_ReassignNotAssignedFails == [][C5_Step]_vars

\* a reassignment was just refused as NotAssigned on an open PR that has a
\* reviewer and an active teammate who could have replaced one
C5_Witness ==
  /\ Returned("ReassignReviewer", CodeNotAssigned)
  /\ \E id \in DOMAIN prs :
       /\ prs[id].status = StatusOpen
       /\ Reviewers(pr_reviewers, id) # {}
       /\ \E u \in DOMAIN users :
            /\ u \notin Reviewers(pr_reviewers, id)
            /\ u # prs[id].author_id
            /\ users[u].is_active

\* ---- C6
C6_Step ==
  (Called("CreateTeam") /\ ~(last'.err = CodeTeamExists /\ UNCHANGED store)) =>
    \A t \in teams, m \in ShortRequests : ~CreateTeam(t, m)

\* C6: no CreateTeam call that names an existing team does anything but fail
\* with TeamExists and leave teams and users (and every other table) as they
\* were.
C6_CreateTeamExistsFails == [][C6_Step]_vars

\* a CreateTeam was just refused while a user of one team has a name and a
\* flag that requests could have overwritten
C6_Witness ==
  /\ Returned("CreateTeam", CodeTeamExists)
  /\ \E u \in DOMAIN users : users[u].username = "b" /\ ~users[u].is_active

\* ---- C7
\* the last entry of the member list that names user u
LastEntry(members, u) ==
  LET i == CHOOSE k \in 1..Len(members) :
             /\ members[k].UserID = u
             /\ \A j \in (k + 1)..Len(members) : members[j].UserID # u
  IN members[i]

Listed(members) == {members[i].UserID : i \in 1..Len(members)}

AsUser(member, t) ==
  [username |-> member.Username, team_name |-> t, is_active |-> member.IsActive]

C7_Original_Step ==
  (Called("CreateTeam") /\ last'.err = OK) =>
  \A t \in TeamNames \ teams, m \in ShortRequests :
    CreateTeam(t, m) =>
      /\ last'.err = OK
      /\ \A i \in 1..Len(m) :
           /\ m[i].UserID \in DOMAIN users'
           /\ users'[m[i].UserID] = AsUser(m[i], t)
      /\ \A u \in DOMAIN users \ Listed(m) :
           u \in DOMAIN users' /\ users'[u] = users[u]

\* C7 as stated: after a successful CreateTeam every member of the request
\* is stored with exactly its requested name, flag and the new team.
C7_Original == [][C7_Original_Step]_vars

C7_Step ==
  (Called("CreateTeam") /\ teams' # teams) =>
  \A t \in teams' \ teams, m \in ShortRequests :
    CreateTeam(t, m) =>
      /\ last'.err = OK
      /\ teams' = teams \cup {t}
      /\ DOMAIN users' = DOMAIN users \cup Listed(m)
      /\ \A u \in Listed(m) : users'[u] = AsUser(LastEntry(m, u), t)
      /\ \A u \in DOMAIN users \ Listed(m) : users'[u] = users[u]

\* C7 (amended): CreateTeam with a new name succeeds, and every user id the
\* request names is afterwards stored with the new team and the name and flag
\* of the last member entry that names it, whether the id existed before or
\* not; users the request does not name are unchanged.
C7_CreateTeamUpserts == [][C7_Step]_vars

\* a team was just created that took over a user of the other team, changing
\* the user's name
C7_Witness ==
  /\ Returned("CreateTeam", OK)
  /\ teams = TeamNames
  /\ \E u, v \in DOMAIN users :
       /\ users[u].team_name # users[v].team_name
       /\ users[u].username # users[v].username

\* ---- C8
C8_Step ==
  /\ \A id \in PRIds :
       /\ id \in DOMAIN prs => id \in DOMAIN prs'
       /\ (id \notin DOMAIN prs /\ id \in DOMAIN prs') =>
            prs'[id].status = StatusOpen
       /\ (id \in DOMAIN prs /\ prs[id].status = StatusMerged) =>
            prs'[id].status = StatusMerged
       /\ (id \in DOMAIN prs /\ pr_reviewers' # pr_reviewers
             /\ Reviewers(pr_reviewers', id) # Reviewers(pr_reviewers, id)) =>
            prs[id].status = StatusOpen /\ prs'[id].status = StatusOpen
  /\ (Called("ReassignReviewer") /\ last'.err = OK) =>
       /\ last'.pr.ID \in DOMAIN prs
       /\ prs[last'.pr.ID].status = StatusOpen

\* C8: a PR is created OPEN, is never removed, and once MERGED stays MERGED;
\* a successful reassignment is applied only to a PR that is OPEN.
C8_StatusOnlyForward == [][C8_Step]_vars

\* a PR is merged and a later call that names it has just returned
C8_Witness ==
  /\ Returned("CreatePullRequest", CodePRExists)
  /\ \E id \in DOMAIN prs : prs[id].status = StatusMerged

\* ---- C9
\* C9: in every committed state no PR has its author among its reviewers and
\* no PR has the same reviewer twice.
C9_NoSelfReviewNoDuplicates ==
  /\ \A id \in DOMAIN prs : RowCount(pr_reviewers, id, prs[id].author_id) = 0
  /\ NoDuplicateRows(pr_reviewers)

\* a reviewer was just replaced on a PR whose author is an active member of
\* the new reviewer's team
C9_Witness ==
  /\ Returned("ReassignReviewer", OK)
  /\ users[last.pr.AuthorID].is_active
  /\ users[last.pr.AuthorID].team_name = users[last.replaced_by].team_name

\* ---- C10
Finishes(p) == txs[p].pc \notin {"idle", "done"} /\ txs'[p].pc = "done"

\* the whole effect of the operation p is running, read off the tables
C10_Whole(p) ==
  LET tx == txs[p]
  IN CASE tx.op = "CreateTeam" ->
            /\ tx.team \notin teams
            /\ teams' = teams \cup {tx.team}
            /\ DOMAIN users' = DOMAIN users \cup Listed(tx.members)
            /\ \A u \in Listed(tx.members) :
                 users'[u] = AsUser(LastEntry(tx.members, u), tx.team)
            /\ \A u \in DOMAIN users \ Listed(tx.members) : users'[u] = users[u]
            /\ UNCHANGED <<prs, pr_reviewers>>
       [] tx.op = "CreatePullRequest" ->
            /\ tx.id \notin DOMAIN prs
            /\ DOMAIN prs' = DOMAIN prs \cup {tx.id}
            /\ prs'[tx.id].status = StatusOpen
            /\ prs'[tx.id].author_id = tx.user
            /\ Reviewers(pr_reviewers', tx.id) = Range(tx.list)
            /\ NoDuplicateRows(pr_reviewers')
            /\ \A id \in DOMAIN prs :
                 /\ prs'[id] = prs[id]
                 /\ Reviewers(pr_reviewers', id) = Reviewers(pr_reviewers, id)
            /\ UNCHANGED <<teams, users>>
       [] tx.op = "MergePullRequest" ->
            /\ DOMAIN prs' = DOMAIN prs
            /\ prs'[tx.id].status = StatusMerged
            /\ prs'[tx.id].merged_at.Valid
            /\ \A id \in DOMAIN prs \ {tx.id} : prs'[id] = prs[id]
            /\ UNCHANGED <<teams, users, pr_reviewers>>
       [] tx.op = "ReassignReviewer" ->
            /\ tx.user \in Reviewers(pr_reviewers, tx.id)
            /\ tx.new \notin Reviewers(pr_reviewers, tx.id)
            /\ Reviewers(pr_reviewers', tx.id) =
                 (Reviewers(pr_reviewers, tx.id) \ {tx.user}) \cup {tx.new}
            /\ NoDuplicateRows(pr_reviewers')
            /\ \A id \in PRIds \ {tx.id} :
                 Reviewers(pr_reviewers', id) = Reviewers(pr_reviewers, id)
            /\ UNCHANGED <<teams, users, prs>>

C10_Step ==
  /\ \A p \in Procs : (Finishes(p) /\ txs'[p].err # OK) => UNCHANGED store
  /\ store' # store =>
       \/ \E p \in Procs : Finishes(p) /\ txs'[p].err = OK /\ C10_Whole(p)
       \/ /\ UNCHANGED <<teams, prs, pr_reviewers, txs>>
          /\ \E u \in DOMAIN users, a \in BOOLEAN :
               users' = [users EXCEPT ![u].is_active = a]

\* C10: an operation that returns an error, a store error or a cancellation
\* before any of its statements included, leaves the committed tables as they
\* were; the committed tables change only by the commit of a whole
\* operation (a team with all its upserts, a PR with all the reviewer rows
\* chosen for it, a reviewer removed together with the replacement inserted)
\* or by SetUserActive's one statement.
C10_AllOrNothing == [][C10_Step]_vars

\* a reassignment has failed after it deleted the old reviewer's row and
\* before it inserted the new one
C10_Witness ==
  \E p \in Procs :
    /\ txs[p].pc = "done"
    /\ txs[p].op = "ReassignReviewer"
    /\ txs[p].err = Internal
    /\ Len(txs[p].log) = 1
    /\ txs[p].log[1].k = "rev-"
    /\ \E id \in DOMAIN prs : txs[p].log[1].u \in Reviewers(pr_reviewers, id)

\* ---- C11
C11_Step ==
  /\ \A p \in Procs :
       (/\ At(p, "CreateTeam", "insert")
        /\ teamExists(teams, txs[p].team)
        /\ TxCreateTeamInsert(p)) =>
         /\ txs'[p].pc = "done"
         /\ txs'[p].err = CodeTeamExists
         /\ UNCHANGED store
  /\ \A p \in Procs :
       (Finishes(p) /\ txs[p].op = "CreateTeam" /\ txs'[p].err = OK) =>
         ~teamExists(teams, txs[p].team)

\* C11 as stated: of two CreateTeam calls for one new name that both passed
\* the pre-check, one commits, and the other, whose INSERT INTO teams meets
\* the committed row of that name, returns TeamExists and writes nothing.
C11_InsertConflictIsTeamExists == [][C11_Step]_vars

\* ---- C12
C12_Step ==
  /\ \A p \in Procs :
       (/\ Finishes(p)
        /\ txs[p].op = "CreatePullRequest"
        /\ txs'[p].err = OK) =>
         LET tx == txs[p]
         IN /\ tx.id \notin DOMAIN prs
            /\ tx.id \in DOMAIN prs'
            /\ prs'[tx.id].pull_request_name = tx.name
            /\ prs'[tx.id].author_id = tx.user
            /\ prs'[tx.id].status = StatusOpen
            /\ Reviewers(pr_reviewers', tx.id) = Range(tx.list)
            /\ tx.user \notin Range(tx.list)
            /\ NoDuplicateRows(pr_reviewers')
  /\ \A id \in PRIds \ DOMAIN prs :
       \/ /\ id \notin DOMAIN prs'
          /\ Reviewers(pr_reviewers', id) = {}
       \/ \E p \in Procs :
            /\ Finishes(p)
            /\ txs[p].op = "CreatePullRequest"
            /\ txs[p].id = id
            /\ txs'[p].err = OK
  /\ \A id \in DOMAIN prs :
       /\ id \in DOMAIN prs'
       /\ prs'[id].pull_request_name = prs[id].pull_request_name
       /\ prs'[id].author_id = prs[id].author_id
       /\ Reviewers(pr_reviewers', id) # Reviewers(pr_reviewers, id) =>
            \E p \in Procs :
              /\ Finishes(p)
              /\ txs[p].op = "ReassignReviewer"
              /\ txs[p].id = id
              /\ txs'[p].err = OK

\* C12: whatever the interleaving of the CreatePullRequest calls for one id,
\* a call commits only while no PR of that id is committed, and the PR it
\* commits has its name, its author and exactly the reviewer rows it chose;
\* from then on the PR stays, with that name and author, and its reviewer rows
\* change by a committed reassignment alone: at most one of the calls
\* succeeds and no other call contributes to the PR.
C12_OneCreatorWins == [][C12_Step]_vars

\* one call has created the PR and returned while another call for the same
\* id, by another author, has passed the existence check and is about to
\* insert
C12_Witness ==
  \E p, q \in Procs :
    /\ txs[p].pc = "done"
    /\ txs[p].op = "CreatePullRequest"
    /\ txs[p].err = OK
    /\ At(q, "CreatePullRequest", "insert")
    /\ txs[q].id \in DOMAIN prs
    /\ prs[txs[q].id].author_id # txs[q].user

\* ---- C13
\* q holds the row lock of PR id: its transaction has locked the row and has
\* neither committed nor rolled back
HoldsPR(q, id) ==
  /\ txs[q].op \in {"MergePullRequest", "ReassignReviewer"}
  /\ txs[q].id = id
  /\ txs[q].pc \notin {"idle", "lock", "done"}

RowsOf(rows, id) == [u \in UserIds |-> RowCount(rows, id, u)]

C13_Step ==
  \* the reviewer rows of a PR committed as MERGED never change
  /\ \A id \in DOMAIN prs :
       prs[id].status = StatusMerged =>
         RowsOf(pr_reviewers', id) = RowsOf(pr_reviewers, id)
  \* two transactions never hold the lock of one PR
  /\ \A p, q \in Procs, id \in LockPRIds :
       (p # q /\ HoldsPR(p, id)) => ~HoldsPR(q, id)
  \* what a transaction read under the lock is what is committed when it
  \* commits, and its commit is the whole operation applied to that: the
  \* transactions on one PR take effect one after the other
  /\ \A p \in Procs :
       (Finishes(p) /\ txs'[p].err = OK) =>
         LET tx == txs[p]
         IN CASE tx.op = "MergePullRequest" ->
                   /\ prs' = [prs EXCEPT ![tx.id] = mergedRow(prs[tx.id], tx.began)]
                   /\ txs'[p].row = prs'[tx.id]
                   /\ txs'[p].list = loadReviewers(pr_reviewers, tx.id)
                   /\ UNCHANGED pr_reviewers
              [] tx.op = "ReassignReviewer" ->
                   /\ prs[tx.id] = tx.row
                   /\ prs[tx.id].status = StatusOpen
                   /\ tx.user \in Reviewers(pr_reviewers, tx.id)
                   /\ tx.new \notin Reviewers(pr_reviewers, tx.id) \cup {tx.row.author_id}
                   /\ pr_reviewers' =
                        insertReviewer(deleteReviewer(pr_reviewers, tx.id, tx.user),
                                       tx.id, tx.new)
                   /\ txs'[p].list = loadReviewers(pr_reviewers', tx.id)
                   /\ UNCHANGED prs
              [] OTHER -> TRUE
  \* a transaction waits for the lock of its own PR alone
  /\ \A p \in Procs :
       (/\ last = NoReply
        /\ txs[p].pc = "lock"
        /\ \A q \in Procs \ {p} : ~HoldsPR(q, txs[p].id)) =>
         ENABLED (TxMergeLock(p) \/ TxReassignLock(p))

\* C13: merges and reassignments of one PR hold its row lock one at a time,
\* and each commits the whole operation applied to the committed rows it read
\* under the lock, so every interleaving ends as the serial order of the
\* lock grants does; the reviewer rows of a PR committed as MERGED never
\* change; and a transaction whose PR no other transaction has locked is
\* never kept from taking its lock, whatever is locked on the other PR.
C13_SerializedOnRowLock == [][C13_Step]_vars

\* a reassignment of pr1 has deleted the old reviewer's row and holds the
\* lock, while a merge of pr1 waits for the lock
C13_Witness ==
  \E p, q \in Procs :
    /\ At(p, "ReassignReviewer", "insert")
    /\ At(q, "MergePullRequest", "lock")
    /\ txs[p].id = "pr1"
    /\ txs[q].id = "pr1"

\* a merge of pr2 has taken its lock and gone on while a reassignment holds
\* the lock of pr1
C13_WitnessOtherPR ==
  \E p, q \in Procs :
    /\ At(p, "ReassignReviewer", "insert")
    /\ At(q, "MergePullRequest", "update")
    /\ txs[p].id = "pr1"
    /\ txs[q].id = "pr2"

\* ---- C14
\* p has deleted the old reviewer's row and has not committed
MidReassign(p) ==
  /\ txs[p].op = "ReassignReviewer"
  /\ txs[p].pc \in {"insert", "reload", "commit"}

\* the reviewers of the PR as p loaded them under the lock, before its DELETE
Before(p) ==
  IF txs[p].pc = "commit"
    THEN (Range(txs[p].list) \ {txs[p].new}) \cup {txs[p].user}
    ELSE Range(txs[p].list)

\* the reviewers of the PR an observer may be shown
Shown(id) ==
  IF \E p \in Procs : MidReassign(p) /\ txs[p].id = id
    THEN Before(CHOOSE p \in Procs : MidReassign(p) /\ txs[p].id = id)
    ELSE Reviewers(pr_reviewers, id)

ListedIds(list) == {pr.ID : pr \in list}

C14_Step ==
  \* ListUserReviews shows the PR to the reviewers it had before and to nobody
  \* else, the old reviewer included and the new one not
  /\ Called("ListUserReviews") =>
       \A u \in DOMAIN users :
         ListUserReviews(u) =>
           ListedIds(last'.list) = {id \in DOMAIN prs : u \in Shown(id)}
  \* Stats counts the PR for the reviewers it had before
  /\ Called("Stats") =>
       \A i \in 1..Len(last'.stats.Assignments) :
         LET a == last'.stats.Assignments[i]
         IN a.Count = Cardinality({id \in DOMAIN prs : a.UserID \in Shown(id)})
  \* no statement of another transaction reads anything else, and the
  \* reassigning transaction itself is the only one to read its own writes
  /\ \A p \in Procs :
       MidReassign(p) =>
         /\ Before(p) = Reviewers(pr_reviewers, txs[p].id)
         /\ Cardinality(Before(p)) = Len(loadReviewers(pr_reviewers, txs[p].id))
         /\ \A q \in Procs \ {p} :
              txs[q].pc \notin {"idle", "done"} =>
                loadReviewers(View(q).rows, txs[p].id)
                  = loadReviewers(pr_reviewers, txs[p].id)
         /\ txs[p].user \notin Reviewers(View(p).rows, txs[p].id)
  \* the commit shows the set after it, at once
  /\ \A p \in Procs :
       (MidReassign(p) /\ Finishes(p) /\ txs'[p].err = OK) =>
         /\ Reviewers(pr_reviewers', txs[p].id)
              = (Before(p) \ {txs[p].user}) \cup {txs[p].new}
         /\ Cardinality(Reviewers(pr_reviewers', txs[p].id))
              = Cardinality(Before(p))

\* C14: while a reassignment has deleted the old reviewer's row and not yet
\* committed, every ListUserReviews, every Stats and every statement of
\* another transaction shows the PR with the reviewers it had before the
\* reassignment; the commit replaces that set by the set with the new
\* reviewer in one step.  (GetTeam reads no reviewer row.)
C14_NoIntermediateObserved == [][C14_Step]_vars

\* the old reviewer u2 was just shown pr1 while a reassignment of pr1 that
\* names u2 had deleted the row of u2 and not yet inserted the new one
C14_Witness ==
  /\ Returned("ListUserReviews", OK)
  /\ ListedIds(last.list) = {"pr1"}
  /\ Reviewers(pr_reviewers, "pr2") = {"u3"}
  /\ \E p \in Procs :
       /\ At(p, "ReassignReviewer", "insert")
       /\ txs[p].id = "pr1"
       /\ txs[p].user = "u2"

\* ---- C15
\* the active members of the outgoing reviewer's team other than the
\* outgoing reviewer, the PR's current reviewers and the PR's author
ReplacementPool(id, old) ==
  ActiveOthers(users, users[old].team_name, old)
    \ (Reviewers(pr_reviewers, id) \cup {prs[id].author_id})

C15_Step ==
  Called("ReassignReviewer") =>
  \A id \in DOMAIN prs, old \in UserIds :
    (/\ ReassignReviewer(id, old)
     /\ prs[id].status = StatusOpen
     /\ old \in Reviewers(pr_reviewers, id)) =>
      /\ last'.err = CodeNoCandidate <=> ReplacementPool(id, old) = {}
      /\ last'.err = CodeNoCandidate =>
           /\ UNCHANGED store
           /\ old \in Reviewers(pr_reviewers', id)
      /\ last'.err # CodeNoCandidate =>
           /\ last'.err = OK
           /\ last'.replaced_by \in ReplacementPool(id, old)

\* C15: ReassignReviewer on an OPEN PR for one of its reviewers fails with
\* NoCandidate, leaving every table as it was and the reviewer assigned,
\* exactly when the outgoing reviewer's team has no active member other than
\* the outgoing reviewer, the PR's other reviewers and the PR's author;
\* otherwise it succeeds with a member of that pool.
C15_NoCandidateIffPoolEmpty == [][C15_Step]_vars

\* the scenario: the author's team has two members, both active, the other
\* one is the PR's reviewer, and reassigning that reviewer was just refused
\* with NoCandidate
C15_Witness ==
  /\ Returned("ReassignReviewer", CodeNoCandidate)
  /\ \E id \in DOMAIN prs :
       LET author == prs[id].author_id
           team == {u \in DOMAIN users :
                      users[u].team_name = users[author].team_name}
       IN /\ prs[id].status = StatusOpen
          /\ Cardinality(team) = 2
          /\ \A u \in team : users[u].is_active
          /\ Reviewers(pr_reviewers, id) = team \ {author}

\* ---- C16
C16_Step ==
  Called("CreatePullRequest") =>
  \A id \in PRIds, n \in PRNames, a \in UserIds :
    CreatePullRequest(id, n, a) =>
      /\ id \in DOMAIN prs =>
           /\ last'.err = CodePRExists
           /\ UNCHANGED store
      /\ (id \notin DOMAIN prs /\ a \notin DOMAIN users) =>
           /\ last'.err = CodeNotFound
           /\ UNCHANGED store
           /\ Reviewers(pr_reviewers', id) = {}

\* C16: CreatePullRequest with an id that is present fails with PRExists,
\* whether the author exists or not; with a new id and an author that does
\* not exist it fails with NotFound; either way no table changes, so no PR
\* row and no reviewer row is added and the PR of that id is as it was.
C16_CreateFailsWriteNothing == [][C16_Step]_vars

\* a create for the id of a merged PR with reviewers was just refused with
\* PRExists while some user id names no user
C16_Witness ==
  /\ Returned("CreatePullRequest", CodePRExists)
  /\ DOMAIN users # UserIds
  /\ \E id \in DOMAIN prs :
       prs[id].status = StatusMerged /\ Reviewers(pr_reviewers, id) # {}

\* ---- C17
C17_Step ==
  Called("ListUserReviews") =>
  \A u \in UserIds :
    ListUserReviews(u) =>
      /\ UNCHANGED store
      /\ last'.err = CodeNotFound <=> u \notin DOMAIN users
      /\ u \in DOMAIN users =>
           /\ last'.err = OK
           /\ ListedIds(last'.list) =
                {id \in DOMAIN prs : u \in Reviewers(pr_reviewers, id)}
           /\ Cardinality(last'.list) = Cardinality(ListedIds(last'.list))
           /\ \A pr \in last'.list :
                /\ pr.Name = prs[pr.ID].pull_request_name
                /\ pr.AuthorID = prs[pr.ID].author_id
                /\ pr.Status = prs[pr.ID].status

\* C17: ListUserReviews fails with NotFound exactly when the user does not
\* exist; for a user that exists it succeeds and returns, once each, exactly
\* the PRs that have a reviewer row of the user, OPEN or MERGED, with their
\* stored name, author and status (none of them: the empty list); it writes
\* nothing.
C17_ListIsCurrentAssignments == [][C17_Step]_vars

\* a user that exists was just shown an empty list while the PR, merged, has
\* another reviewer and the user is no longer or was never one of them
C17_Witness ==
  /\ Returned("ListUserReviews", OK)
  /\ last.list = {}
  /\ \E id \in DOMAIN prs :
       prs[id].status = StatusMerged /\ Reviewers(pr_reviewers, id) # {}

\* a user was just shown a merged PR
C17_WitnessMerged ==
  /\ Returned("ListUserReviews", OK)
  /\ \E pr \in last.list : pr.Status = StatusMerged

\* ---- C18
\* C18: the response written for a call that returned an error has the
\* status and code of the error's kind: TeamExists 400/TEAM_EXISTS, PRExists
\* 409/PR_EXISTS, PRMerged 409/PR_MERGED, NotAssigned 409/NOT_ASSIGNED,
\* NoCandidate 409/NO_CANDIDATE, NotFound 404/NOT_FOUND, a request the
\* handler could not decode or validate 400/BAD_REQUEST, any other error
\* 500/INTERNAL.
C18_ErrorKindFixesResponse ==
  last.err # OK =>
    Response(last) =
      CASE last.err = CodeTeamExists -> [status |-> 400, code |-> "TEAM_EXISTS"]
        [] last.err = CodePRExists -> [status |-> 409, code |-> "PR_EXISTS"]
        [] last.err = CodePRMerged -> [status |-> 409, code |-> "PR_MERGED"]
        [] last.err = CodeNotAssigned -> [status |-> 409, code |-> "NOT_ASSIGNED"]
        [] last.err = CodeNoCandidate -> [status |-> 409, code |-> "NO_CANDIDATE"]
        [] last.err = CodeNotFound -> [status |-> 404, code |-> "NOT_FOUND"]
        [] last.err = BadRequest -> [status |-> 400, code |-> "BAD_REQUEST"]
        [] OTHER -> [status |-> 500, code |-> "INTERNAL"]

\* a CreateTeam for a team that exists was just refused
C18_Witness ==
  /\ Returned("CreateTeam", CodeTeamExists)
  /\ teams # {}

\* ---- C19
\* C19 as stated: no two handlers are ever inside a call on the same
\* in-memory mutable object at once; the generator s.rnd is such an object.
C19_NoSharedMutableObject ==
  \A p, q \in Procs : (p # q /\ InRnd(p)) => ~InRnd(q)

\* ---- C20
\* the merge timestamp is set exactly for the MERGED PRs
StampedIffMerged(ps) ==
  \A id \in DOMAIN ps : ps[id].merged_at.Valid <=> ps[id].status = StatusMerged

C20_Step ==
  /\ StampedIffMerged(prs)
  /\ StampedIffMerged(prs')
  \* once set, never changed
  /\ \A id \in DOMAIN prs :
       prs[id].merged_at.Valid =>
         id \in DOMAIN prs' /\ prs'[id].merged_at = prs[id].merged_at
  \* set by a merge that finds the PR OPEN, and by nothing else
  /\ \A id \in DOMAIN prs' :
       (prs'[id].merged_at.Valid
          /\ (id \notin DOMAIN prs \/ ~prs[id].merged_at.Valid)) =>
         /\ id \in DOMAIN prs
         /\ prs[id].status = StatusOpen
         /\ Called("MergePullRequest")
         /\ last'.err = OK
         /\ last'.pr.ID = id
         /\ prs'[id].merged_at = ValidTime(clock)

\* C20: in every committed state a PR has a merge timestamp exactly when its
\* status is MERGED; the timestamp is written by a MergePullRequest that
\* finds the PR OPEN and by no other step, and once written it never changes.
C20_MergedAtSetOnce == [][C20_Step]_vars

\* the PR was merged at time 1, the clock has moved on, and a reassignment on
\* it was just refused
C20_Witness ==
  /\ Returned("ReassignReviewer", CodePRMerged)
  /\ clock > 1
  /\ \E id \in DOMAIN prs : prs[id].merged_at = ValidTime(1)

\* ---- C22
\* the first failure condition of ReassignReviewer(id, old) that applies, in
\* the order the claim gives; OK when none applies
FirstFailure(id, old) ==
  IF id \notin DOMAIN prs THEN CodeNotFound
  ELSE IF prs[id].status = StatusMerged THEN CodePRMerged
  ELSE IF old \notin Reviewers(pr_reviewers, id) THEN CodeNotAssigned
  ELSE IF old \notin DOMAIN users THEN CodeNotFound
  ELSE IF ReplacementPool(id, old) = {} THEN CodeNoCandidate
  ELSE OK

C22_Step ==
  Called("ReassignReviewer") =>
  \A id \in PRIds, old \in UserIds :
    ReassignReviewer(id, old) =>
      /\ last'.err = FirstFailure(id, old)
      /\ last'.err # OK => UNCHANGED store

\* C22: ReassignReviewer reports the first failure that applies in the order
\* NotFound (no such PR), PRMerged, NotAssigned, NotFound (no record of the
\* outgoing user), NoCandidate, and succeeds when none applies; a failed call
\* writes nothing.
C22_ReassignFailureOrder == [][C22_Step]_vars

\* a reassignment on an OPEN PR was just refused with NotAssigned while no
\* user at all could have been a replacement (every active user is the
\* author or a reviewer) and some user id names no user
C22_Witness ==
  /\ Returned("ReassignReviewer", CodeNotAssigned)
  /\ DOMAIN users # UserIds
  /\ \E id \in DOMAIN prs :
       /\ prs[id].status = StatusOpen
       /\ Reviewers(pr_reviewers, id) # {}
       /\ \A u \in DOMAIN users :
            users[u].is_active =>
              u \in Reviewers(pr_reviewers, id) \cup {prs[id].author_id}

\* a reassignment on a MERGED PR that has no reviewer, so that whoever it
\* named was not assigned, was just refused with PRMerged
C22_WitnessMerged ==
  /\ Returned("ReassignReviewer", CodePRMerged)
  /\ \E id \in DOMAIN prs :
       prs[id].status = StatusMerged /\ Reviewers(pr_reviewers, id) = {}

\* ---- C23
C23_Step ==
  Called("SetUserActive") =>
  \A u \in UserIds, a \in BOOLEAN :
    SetUserActive(u, a) =>
      /\ UNCHANGED <<teams, prs, pr_reviewers>>
      /\ last'.err = CodeNotFound <=> u \notin DOMAIN users
      /\ u \notin DOMAIN users => UNCHANGED users
      /\ u \in DOMAIN users =>
           /\ last'.err = OK
           /\ DOMAIN users' = DOMAIN users
           /\ users'[u].is_active = a
           /\ users'[u].username = users[u].username
           /\ users'[u].team_name = users[u].team_name
           /\ \A v \in DOMAIN users \ {u} : users'[v] = users[v]
           /\ \A id \in DOMAIN prs :
                u \in Reviewers(pr_reviewers, id) =>
                  u \in Reviewers(pr_reviewers', id)

\* C23: SetUserActive fails with NotFound exactly when the user does not
\* exist, and then changes nothing; otherwise it succeeds, the user's active
\* flag is the requested value, and the user's name and team, every other
\* user, every team, every PR and every reviewer row are as before, so a
\* user switched off stays a reviewer of every PR they were reviewing.
C23_SetActiveFrame == [][C23_Step]_vars

\* a SetUserActive just succeeded and the one user who is switched off is a
\* reviewer of an OPEN PR, which only active users are assigned to
C23_Witness ==
  /\ Returned("SetUserActive", OK)
  /\ \E u \in DOMAIN users :
       /\ ~users[u].is_active
       /\ \A v \in DOMAIN users \ {u} : users[v].is_active
       /\ \E id \in DOMAIN prs :
            prs[id].status = StatusOpen /\ u \in Reviewers(pr_reviewers, id)

\* a SetUserActive for a user id that names no user was just refused while
\* other users and a PR with reviewers exist
C23_WitnessNotFound ==
  /\ Returned("SetUserActive", CodeNotFound)
  /\ \E id \in DOMAIN prs : Reviewers(pr_reviewers, id) # {}

\* ---- C24
\* p's reassignment on the PR id committed, p has not yet written its reply,
\* and the PR's committed reviewers are as p left them: no call has changed
\* them since
FirstOf(p, id) ==
  /\ txs[p].op = "ReassignReviewer"
  /\ txs[p].pc = "done"
  /\ txs[p].err = OK
  /\ txs[p].id = id
  /\ loadReviewers(pr_reviewers, id) = txs[p].list

\* q runs a reassignment on the PR of p's and has the row lock, which it got
\* after p committed
SecondTo(p, q) ==
  /\ p # q
  /\ txs[q].op = "ReassignReviewer"
  /\ <<"pr", txs[q].id>> \in txs[q].locks
  /\ FirstOf(p, txs[q].id)

C24_Step ==
  \* whatever runs, a PR keeps the number of its distinct reviewers
  /\ \A id \in DOMAIN prs :
       /\ Cardinality(Reviewers(pr_reviewers', id)) =
            Cardinality(Reviewers(pr_reviewers, id))
       /\ NoDuplicateRows(pr_reviewers')
  /\ \A p, q \in Procs :
       SecondTo(p, q) =>
         \* the second reads the reviewers the first committed
         /\ TxReassignLoad(q) =>
              /\ txs[q].user = txs[p].user =>
                   txs'[q].pc = "done" /\ txs'[q].err = CodeNotAssigned
              /\ txs[q].user \in Range(txs[p].list) =>
                   txs'[q].pc = "user" /\ txs'[q].list = txs[p].list
         \* the same outgoing reviewer: the second does not succeed
         /\ (txs[q].user = txs[p].user /\ txs'[q].pc = "done") =>
              txs'[q].err \in {CodeNotAssigned, Internal}
         \* another reviewer, one the PR had before the first call too: the
         \* second's replacement is not the first's
         /\ (txs[q].user \notin {txs[p].user, txs[p].new}
               /\ TxReassignCommit(q)) =>
              /\ txs[q].new # txs[p].new
              /\ txs[p].new \in Reviewers(pr_reviewers', txs[q].id)
              /\ Reviewers(pr_reviewers', txs[q].id) =
                   (Range(txs[p].list) \ {txs[q].user}) \cup {txs[q].new}

\* C24: of two ReassignReviewer calls on one OPEN PR, the one that gets the
\* row lock second reads the reviewers the first committed: naming the same
\* outgoing reviewer it fails with NotAssigned (or with a store failure) and
\* does not succeed; naming another current reviewer it picks a replacement
\* other than the first's, which stays assigned; and the PR keeps its number
\* of distinct reviewers throughout.
C24_SecondReadsFirst == [][C24_Step]_vars

\* both calls on pr1 have committed, the first replaced u2 and the second,
\* which waited for the first's lock or came after, replaced u3 by another
\* user; the PR's two reviewers are the two replacements
C24_Witness ==
  \E p, q \in Procs :
    /\ p # q
    /\ \A r \in {p, q} :
         /\ txs[r].op = "ReassignReviewer"
         /\ txs[r].pc = "done"
         /\ txs[r].err = OK
         /\ txs[r].id = "pr1"
    /\ txs[p].user = "u2"
    /\ txs[q].user = "u3"
    /\ txs[p].new # txs[q].new
    /\ Reviewers(pr_reviewers, "pr1") = {txs[p].new, txs[q].new}

\* both calls named u2: the first committed, the second has got the lock of
\* pr1 after it and is about to load the reviewers
C24_WitnessSameOld ==
  \E p, q \in Procs :
    /\ SecondTo(p, q)
    /\ At(q, "ReassignReviewer", "load")
    /\ txs[q].id = "pr1"
    /\ txs[p].user = "u2"
    /\ txs[q].user = "u2"

\* the two calls run at the same time: one holds the lock of pr1 and has
\* written its replacement, the other has begun and waits for the lock
C24_WitnessWaiting ==
  \E p, q \in Procs :
    /\ At(p, "ReassignReviewer", "commit")
    /\ At(q, "ReassignReviewer", "lock")
    /\ txs[p].id = "pr1" /\ txs[q].id = "pr1"
    /\ txs[p].user = "u2" /\ txs[q].user = "u3"
    /\ ~ENABLED TxReassignLock(q)

\* ---- C21
\* p's merge has run its UPDATE, which wrote the merge timestamp
MergeWrote(p) ==
  /\ txs[p].op = "MergePullRequest"
  /\ txs[p].pc \in {"load", "commit"}
  /\ txs[p].log # <<>>

\* C21 as stated: the merge timestamp a MergePullRequest writes for an OPEN PR
\* is not earlier than the time at which its transaction was granted the row
\* lock of the PR.
C21_MergedAtNotBeforeLock ==
  \A p \in Procs :
    MergeWrote(p) => txs[p].row.merged_at.Time >= txs[p].locked

\* the claim's scenario: q's reassignment on pr1 held the lock and committed
\* at time 2; p's merge, begun at time 1, was granted the lock after that
\* commit and wrote the merge timestamp 1
C21_WaitedThenStampedEarlier ==
  \E p, q \in Procs :
    /\ MergeWrote(p)
    /\ txs[p].locked = 2
    /\ txs[p].row.merged_at = ValidTime(1)
    /\ txs[q].op = "ReassignReviewer"
    /\ txs[q].pc = "done"
    /\ txs[q].err = OK
    /\ txs[q].id = txs[p].id
    /\ loadReviewers(pr_reviewers, txs[q].id) = txs[q].list
    /\ "u4" \in Reviewers(pr_reviewers, txs[q].id)

\* ---- C25
Open(p) == txs[p].pc \notin {"idle", "done"}

\* p's transaction is at its locking statement and the lock is not free
Waiting(p) == txs[p].pc = "lock" /\ ~ENABLED TxLock(p)

\* a transaction holds nothing before and after it ran, holds nothing at the
\* one statement where it may wait, holds the lock of its own PR and nothing
\* else after that and never waits again; the holder of the lock a
\* transaction waits for is not itself waiting
NoHoldAndWait ==
  \A p \in Procs :
    /\ ~Open(p) => txs[p].locks = {}
    /\ txs[p].pc = "lock" => txs[p].locks = {}
    /\ (Open(p) /\ txs[p].pc # "lock") =>
         /\ txs[p].locks = {<<"pr", txs[p].id>>}
         /\ ENABLED TxStep(p)
    /\ Waiting(p) =>
         \E q \in Procs \ {p} :
           /\ <<"pr", txs[p].id>> \in txs[q].locks
           /\ ENABLED TxStep(q)

\* C25: MergePullRequest and ReassignReviewer transactions that run at the
\* same time never deadlock: a transaction waits only for the row lock of its
\* own PR, holding no lock while it waits, and the holder is never waiting;
\* under fair scheduling every call that has begun comes to its end, commit
\* or rollback, with a result to return.
C25_DeadlockFree ==
  /\ []NoHoldAndWait
  /\ \A p \in Procs : Open(p) ~> (txs[p].pc = "done")

\* a merge of pr1 waits for the lock while a reassignment on pr1 holds it and
\* is about to insert the new reviewer row
C25_Witness ==
  \E p, q \in Procs :
    /\ Waiting(p)
    /\ txs[p].op = "MergePullRequest"
    /\ txs[p].id = "pr1"
    /\ At(q, "ReassignReviewer", "insert")
    /\ txs[q].id = "pr1"

====
